---- MODULE Spec2Model ----
(***************************************************************************)
(* VeritasLoop: the debate orchestration graph (src/orchestrator/graph.py), *)
(* the PRO / CONTRA / JUDGE agents (src/agents) and the tool-access layer  *)
(* with its two caches (src/utils/tool_manager.py).                        *)
(*                                                                         *)
(* Twelve specifications share the variables:                              *)
(*   Spec       one debate session run through the compiled graph          *)
(*   SpecCache  any sequence of search_web, get_url and clear_cache calls  *)
(*              on one ToolManager by a single thread                      *)
(*   SpecTools  any sequence of operations on one ToolManager and on one   *)
(*              agent instance that searches through it                    *)
(*   SpecUnit   the node functions and think() applied to any state dict   *)
(*   SpecEntry  a session started through the API or through the CLI       *)
(*   SpecParallel  a session, or the node parallel_research on its own     *)
(*   SpecThreads   two threads inside search_web on one ToolManager        *)
(*   SpecCounter   two threads inside search() on one agent instance       *)
(*   SpecPages     get_url over more pages than the URL cache holds        *)
(*   SpecCited     think() with tools returning more results than any cap  *)
(*   SpecExtract   extract_claim called repeatedly on a state dict         *)
(*   SpecRound     debate_round called on a state dict                     *)
(***************************************************************************)
EXTENDS Integers, Sequences, FiniteSets, TLC

VARIABLES
    pc,             \* the node the graph runs next; "END", "raised", or "idle" outside a session
    claim,          \* state['claim']: [raw_input, core_claim]
    messages,       \* state['messages']: the transcript
    round_count,    \* state['round_count']
    max_iterations, \* state['max_iterations']
    max_searches,   \* state['max_searches']
    verdict,        \* state['verdict']
    research_depth, \* the last "research_depth" a node returned in its update
    pse_creds,      \* GOOGLE_PSE_API_KEY and GOOGLE_PSE_CX are both set
    search_cache,   \* ToolManager.search_cache, in insertion order
    url_cache,      \* ToolManager.url_cache, in insertion order
    now,            \* time.time()
    search_count,   \* BaseAgent.search_count of the agent instance at hand
    last,           \* what the most recent tool-layer or unit operation did and returned
    issued,         \* per role: searches let through by the budget guard over the session
    llm_succeeded,  \* some generative call of the session succeeded
    threads,        \* what each thread running on the shared ToolManager is doing
    tool_invoked    \* some underlying search tool was invoked in the session

vars == <<pc, claim, messages, round_count, max_iterations, max_searches, verdict,
          research_depth, pse_creds, search_cache, url_cache, now, search_count,
          last, issued, llm_succeeded, tool_invoked, threads>>

Null == "None"

(***************************************************************************)
(* Bounds of the model.                                                    *)
(***************************************************************************)
MaxRounds == 3          \* sessions are explored for max_iterations in 1..MaxRounds
MaxSearches == 1        \* max_searches ranges over -1..MaxSearches
MAX_CACHE_SIZE == 3     \* ToolManager.MAX_CACHE_SIZE, scaled down from 1000
TTL == 1                \* ToolManager.ttl, in clock ticks
MaxTime == TTL          \* the clock runs from 0 to MaxTime: an entry can reach the age TTL
MaxCount == MaxSearches + 1  \* cap on one agent instance's search_count in SpecTools
MaxListLen == 2         \* cap on the length of a list an agent search returns in SpecTools
MaxTranscript == 2      \* cap on the length of a transcript in SpecUnit

(***************************************************************************)
(* Search results.  A result record is represented by its 'url' value:     *)
(* a string the tool returned, None, or a string that is no URL.           *)
(***************************************************************************)
UrlA == "http://a.com"
UrlA2 == "http://a.com/"
UrlB == "http://b.com"
BadUrl == "not a url"

\* a list of results longer than any cap on sources: seven distinct pages
ManyResults == <<UrlA, UrlB, "http://r3.com/", "http://r4.com/", "http://r5.com/",
                 "http://r6.com/", "http://r7.com/">>

Range(s) == {s[i] : i \in 1..Len(s)}

\* pydantic HttpUrl validation (Source.url): accepts http(s) URLs only
ValidUrl(u) == u \in {UrlA, UrlA2, UrlB} \cup Range(ManyResults)

\* pydantic HttpUrl normalisation: an empty path becomes "/"
HttpUrl(u) ==
    IF u \in {UrlA, UrlA2} THEN "http://a.com/"
    ELSE IF u = UrlB THEN "http://b.com/"
    ELSE u

Distinct(s) == \A i, j \in 1..Len(s) : i # j => s[i] # s[j]

Take(s, n) == SubSeq(s, 1, IF Len(s) < n THEN Len(s) ELSE n)

\* what one underlying tool call can do: fail (Raises), or return a list of records
\* [raises |-> FALSE, results |-> <<...>>]
Raises == [raises |-> TRUE, results |-> <<>>]

\* the tool raises NotImplementedError; fb is what the brave call made in its place does
NotImplemented(fb) == [raises |-> TRUE, results |-> <<>>, fallback |-> fb]

IsNotImplemented(o) == "fallback" \in DOMAIN o

KnownTools == {"brave", "duckduckgo", "google_pse"}

\* the tool function search() calls for a tool name; Null: ValueError, none is called
Dispatch(tool) ==
    CASE tool = "brave" -> "brave_search"
      [] tool = "duckduckgo" -> "duckduckgo_search"
      [] tool = "google_pse" -> "google_pse_factcheck"
      [] OTHER -> Null

\* search(query, tool, count): dispatch on the tool name; an unknown name raises
\* ValueError, a tool may raise or return its list.  Raises stands for any exception.
search(tool, out) == IF tool \in KnownTools THEN out ELSE Raises

(***************************************************************************)
(* ToolManager                                                             *)
(***************************************************************************)
CacheIndex(cache, key) ==
    IF \E i \in 1..Len(cache) : cache[i].key = key
    THEN CHOOSE i \in 1..Len(cache) : cache[i].key = key
    ELSE 0

CacheHas(cache, key) == CacheIndex(cache, key) # 0

\* cache[key] = value on an OrderedDict: an existing key keeps its position.
\* stored is a history field: the payload as it was when the entry was written.
CachePut(cache, key, payload, t) ==
    LET e == [key |-> key, value |-> payload, timestamp |-> t, stored |-> payload]
    IN  IF CacheHas(cache, key)
        THEN [cache EXCEPT ![CacheIndex(cache, key)] = e]
        ELSE Append(cache, e)

\* a slip: the size check is dropped
AddToCacheNoEvict(cache, key, payload, t) == CachePut(cache, key, payload, t)

\* ToolManager._add_to_cache
AddToCache(cache, key, payload, t) ==
    LET c1 == IF Len(cache) >= MAX_CACHE_SIZE THEN Tail(cache) ELSE cache
    IN  CachePut(c1, key, payload, t)

\* the cache lookup of get_url and search_web
CacheFresh(cache, key, t) ==
    /\ CacheHas(cache, key)
    /\ t - cache[CacheIndex(cache, key)].timestamp < TTL

\* search_web's handler of NotImplementedError: the brave call is made inside the
\* handler, so what it raises leaves search_web, before anything is cached
FallbackAnswer(cache, key, fb, t) ==
    IF fb.raises
    THEN [cache |-> cache, results |-> <<>>, invoked |-> 2, raised |-> TRUE]
    ELSE [cache |-> AddToCache(cache, key, fb.results, t), results |-> fb.results,
          invoked |-> 2, raised |-> FALSE]

\* ToolManager.search_web(query, tool); out is what the tool does if it is called.
\* Returns the cache afterwards, the list returned, the number of search() calls
\* and whether an exception left search_web.
search_web(cache, query, tool, out, t) ==
    LET key == <<query, tool>>
    IN  IF CacheFresh(cache, key, t)
        THEN [cache |-> cache, results |-> cache[CacheIndex(cache, key)].value,
              invoked |-> 0, raised |-> FALSE]
        ELSE LET got == search(tool, out)
                 results == IF got.raises THEN <<>> ELSE got.results
             IN  IF IsNotImplemented(got)
                 THEN FallbackAnswer(cache, key, search("brave", got.fallback), t)
                 ELSE [cache |-> AddToCache(cache, key, results, t),
                       results |-> results, invoked |-> 1, raised |-> FALSE]

\* ToolManager.get_url(url, agent)
get_url(cache, url, agent, t) ==
    IF CacheFresh(cache, url, t)
    THEN [cache |-> cache, content |-> cache[CacheIndex(cache, url)].value]
    ELSE [cache |-> AddToCache(cache, url, <<url, agent>>, t),
          content |-> <<url, agent>>]

(***************************************************************************)
(* BaseAgent.search and ProAgent.search.  o1 and o2 are what the first and *)
(* the second tool called would do.  The result names the cache afterwards,*)
(* the agent's search_count, the list returned, the number of searches let *)
(* through by the guard (issued), of search_web calls (passed) and of      *)
(* underlying search() calls (invoked), the tool names passed to           *)
(* search_web in order (tools) and the list each of these calls returned   *)
(* (tiers).                                                                *)
(***************************************************************************)
Refused(cache, count) ==
    [cache |-> cache, count |-> count, results |-> <<>>,
     issued |-> 0, passed |-> 0, invoked |-> 0, tools |-> <<>>, tiers |-> <<>>]

\* what a strategy returns after one search_web call, r
OneCall(r, count, tool) ==
    [cache |-> r.cache, count |-> count, results |-> r.results,
     issued |-> 1, passed |-> 1, invoked |-> r.invoked,
     tools |-> <<tool>>, tiers |-> <<r.results>>]

OneTier(cache, count, query, tool, out, t) ==
    OneCall(search_web(cache, query, tool, out, t), count, tool)

\* fact_check_first after both tiers were called: the list of the second is returned
BothTiers(r1, r2, count) ==
    [cache |-> r2.cache, count |-> count, results |-> r2.results,
     issued |-> 1, passed |-> 2, invoked |-> r1.invoked + r2.invoked,
     tools |-> <<"google_pse_factcheck", "brave">>,
     tiers |-> <<r1.results, r2.results>>]

\* fact_check_first once the fact-check tier has answered with r1
AfterFactCheck(r1, count, query, o2, t) ==
    IF r1.results # <<>>
    THEN OneCall(r1, count, "google_pse_factcheck")
    ELSE BothTiers(r1, search_web(r1.cache, query, "brave", o2, t), count)

\* strategy 'fact_check_first'
FactCheckFirst(cache, count, query, creds, o1, o2, t) ==
    IF creds
    THEN AfterFactCheck(search_web(cache, query, "google_pse_factcheck", o1, t),
                        count, query, o2, t)
    ELSE OneTier(cache, count, query, "brave", o2, t)

\* results.extend(...) on the list search_web returned: that list is the very object
\* the cache entry holds, so the entry (if still cached) is extended with it
ExtendInPlace(cache, key, extended) ==
    IF CacheHas(cache, key)
    THEN [cache EXCEPT ![CacheIndex(cache, key)].value = extended]
    ELSE cache

\* web_deep_dive after both tools were called: the first list extended by the second
Extended(r1, r2, count, query) ==
    [cache |-> ExtendInPlace(r2.cache, <<query, "brave">>, r1.results \o r2.results),
     count |-> count + 1, results |-> r1.results \o r2.results,
     issued |-> 2, passed |-> 2, invoked |-> r1.invoked + r2.invoked,
     tools |-> <<"brave", "duckduckgo">>,
     tiers |-> <<r1.results, r2.results>>]

\* a slip: the second tool is queried whatever the budget
AfterBraveUnchecked(r1, count, query, ms, o2, t) ==
    Extended(r1, search_web(r1.cache, query, "duckduckgo", o2, t), count, query)

\* web_deep_dive once brave has answered with r1
AfterBrave(r1, count, query, ms, o2, t) ==
    IF ms <= 0 \/ count < ms
    THEN Extended(r1, search_web(r1.cache, query, "duckduckgo", o2, t), count, query)
    ELSE OneCall(r1, count, "brave")

\* strategy 'web_deep_dive'
WebDeepDive(cache, count, query, ms, o1, o2, t) ==
    AfterBrave(search_web(cache, query, "brave", o1, t), count, query, ms, o2, t)

\* BaseAgent.search(query, strategy, max_searches)
BaseSearch(cache, count, query, strategy, ms, creds, o1, o2, t) ==
    IF ms > 0 /\ count >= ms
    THEN Refused(cache, count)
    ELSE CASE strategy = "fact_check_first" ->
                FactCheckFirst(cache, count + 1, query, creds, o1, o2, t)
           [] strategy = "web_deep_dive" ->
                WebDeepDive(cache, count + 1, query, ms, o1, o2, t)
           [] OTHER -> OneTier(cache, count + 1, query, "brave", o1, t)

\* ProAgent.search(query, strategy, max_searches)
ProSearch(cache, count, query, strategy, ms, creds, o1, o2, t) ==
    IF ms > 0 /\ count >= ms
    THEN Refused(cache, count)
    ELSE IF strategy = "institutional"
         THEN OneTier(cache, count + 1, query, "brave", o1, t)
         ELSE LET r == BaseSearch(cache, count + 1, query, strategy, ms, creds, o1, o2, t)
              IN  [r EXCEPT !.issued = r.issued + 1]

(***************************************************************************)
(* Agents: the messages PRO and CONTRA build.  A Source holds the HttpUrl  *)
(* of its record; a message is represented by the fields of DebateMessage. *)
(***************************************************************************)
Generated == "generated text"
OpeningApology == "Unable to generate opening statement due to technical difficulties."
ProApology == "Unable to generate argument due to technical difficulties. The system is experiencing issues communicating with the language model."
ContraApology == "Unable to generate counterargument due to technical difficulties. The system is experiencing issues communicating with the language model."

NoMessage == [round |-> 0, agent |-> Null, message_type |-> Null, content |-> Null,
              sources |-> <<>>, confidence |-> 0]

Returned(m) == [raised |-> FALSE, msg |-> m]

Raised == [raised |-> TRUE, msg |-> NoMessage]

\* [Source(url=r['url'], ...) for r in records]: the normalised URLs
Sources(records) == [i \in 1..Len(records) |-> HttpUrl(records[i])]

\* a slip: the opening statement cites a source
OpeningStatementCites(llm_ok) ==
    [round |-> 0, agent |-> "PRO", message_type |-> "argument",
     content |-> IF llm_ok THEN Generated ELSE OpeningApology,
     sources |-> <<HttpUrl(UrlA)>>,
     confidence |-> IF llm_ok THEN 60 ELSE 0]

\* ProAgent.opening_statement(state); llm_ok: the generative call succeeds
OpeningStatement(llm_ok) ==
    [round |-> 0, agent |-> "PRO", message_type |-> "argument",
     content |-> IF llm_ok THEN Generated ELSE OpeningApology,
     sources |-> <<>>,
     confidence |-> IF llm_ok THEN 60 ELSE 0]

\* the records ProAgent.think turns into Sources
ProCited(results, depth) ==
    Take(IF depth = 1 THEN Take(results, 2) ELSE results, IF depth = 1 THEN 1 ELSE 3)

\* ProAgent.think(state) once its search has returned results (depth # 0)
ProThink(results, llm_ok, depth, msgs, rc) ==
    LET cited == ProCited(results, depth)
    IN  IF \E i \in 1..Len(cited) : ~ValidUrl(cited[i])
        THEN Raised
        ELSE Returned([round |-> rc, agent |-> "PRO",
                       message_type |-> IF Len(msgs) = 0 THEN "argument" ELSE "defense",
                       content |-> IF llm_ok THEN Generated ELSE ProApology,
                       sources |-> Sources(cited),
                       confidence |-> IF llm_ok THEN 85 ELSE 0])

\* {r['url']: r for r in search_results}.values(): one record per raw url string,
\* in the order of first occurrence
RECURSIVE DedupByUrl(_)
DedupByUrl(records) ==
    IF records = <<>> THEN <<>>
    ELSE LET front == SubSeq(records, 1, Len(records) - 1)
             d == DedupByUrl(front)
             u == records[Len(records)]
         IN  IF u \in Range(front) THEN d ELSE Append(d, u)

\* ContraAgent.think: whether the two concurrent searches of a deep rebuttal are made
ContraParallel(depth, msgs, rc) ==
    /\ rc # 0
    /\ msgs # <<>>
    /\ msgs[Len(msgs)].agent = "PRO"
    /\ depth >= 2

\* a slip: every source is kept, whatever the depth
ContraThinkUncapped(results, llm_ok, depth, msgs, rc) ==
    LET unique == DedupByUrl(results)
        top == Sources(unique)
    IN  IF \E i \in 1..Len(unique) : ~ValidUrl(unique[i])
        THEN Raised
        ELSE IF rc # 0 /\ msgs = <<>>
        THEN Raised
        ELSE Returned([round |-> rc, agent |-> "CONTRA",
                       message_type |-> IF rc = 0 THEN "argument" ELSE "rebuttal",
                       content |-> IF llm_ok THEN Generated ELSE ContraApology,
                       sources |-> top,
                       confidence |-> IF llm_ok THEN (IF top # <<>> THEN 70 ELSE 30) ELSE 0])

\* ContraAgent.think(state) once its searches have returned results
ContraThink(results, llm_ok, depth, msgs, rc) ==
    LET unique == DedupByUrl(results)
        top == Take(Sources(unique), IF depth = 1 THEN 2 ELSE 5)
    IN  IF \E i \in 1..Len(unique) : ~ValidUrl(unique[i])
        THEN Raised
        ELSE IF rc # 0 /\ msgs = <<>>
        THEN Raised
        ELSE Returned([round |-> rc, agent |-> "CONTRA",
                       message_type |-> IF rc = 0 THEN "argument" ELSE "rebuttal",
                       content |-> IF llm_ok THEN Generated ELSE ContraApology,
                       sources |-> top,
                       confidence |-> IF llm_ok THEN (IF top # <<>> THEN 70 ELSE 30) ELSE 0])

\* the query ContraAgent.think searches for
ContraQuery(rc) == IF rc = 0 THEN "fake news" ELSE "contradiction"

(***************************************************************************)
(* JudgeAgent                                                              *)
(***************************************************************************)
\* JudgeAgent._calculate_metadata: the distinct source URLs of the transcript
AllSources(msgs) == UNION {Range(msgs[i].sources) : i \in 1..Len(msgs)}

\* what the generative call can return as a verdict: with or without a metadata
\* object of its own, and with lists of its own
JudgeOutputs ==
    {[verdict |-> "VERO", confidence_score |-> 90, has_metadata |-> TRUE,
      rounds_completed |-> 99, total_sources_checked |-> 99,
      consensus_facts |-> <<"fact">>, disputed_points |-> <<>>, sources_used |-> <<UrlA>>],
     [verdict |-> "FALSO", confidence_score |-> 75, has_metadata |-> FALSE,
      rounds_completed |-> 0, total_sources_checked |-> 0,
      consensus_facts |-> <<>>, disputed_points |-> <<"point">>, sources_used |-> <<>>],
     [verdict |-> "NON_VERIFICABILE", confidence_score |-> 40, has_metadata |-> TRUE,
      rounds_completed |-> 0, total_sources_checked |-> 0,
      consensus_facts |-> <<>>, disputed_points |-> <<>>, sources_used |-> <<>>]}

\* a slip: metadata the generative call returned is kept
JudgeThinkKeepsMetadata(llm_ok, out, msgs, rc) ==
    [verdict |-> IF llm_ok THEN out.verdict ELSE "NON_VERIFICABILE",
     confidence_score |-> IF llm_ok THEN out.confidence_score ELSE 0,
     rounds_completed |-> IF llm_ok /\ out.has_metadata THEN out.rounds_completed ELSE rc,
     total_sources_checked |-> IF llm_ok /\ out.has_metadata
                               THEN out.total_sources_checked
                               ELSE Cardinality(AllSources(msgs)),
     consensus_facts |-> IF llm_ok THEN out.consensus_facts ELSE <<>>,
     disputed_points |-> IF llm_ok THEN out.disputed_points ELSE <<>>,
     sources_used |-> IF llm_ok THEN out.sources_used ELSE <<>>,
     fallback |-> ~llm_ok]

\* JudgeAgent.think(state): the verdict of the generative call with the metadata
\* overwritten, or the fallback verdict when the call fails
JudgeThink(llm_ok, out, msgs, rc) ==
    [verdict |-> IF llm_ok THEN out.verdict ELSE "NON_VERIFICABILE",
     confidence_score |-> IF llm_ok THEN out.confidence_score ELSE 0,
     rounds_completed |-> rc,
     total_sources_checked |-> Cardinality(AllSources(msgs)),
     consensus_facts |-> IF llm_ok THEN out.consensus_facts ELSE <<>>,
     disputed_points |-> IF llm_ok THEN out.disputed_points ELSE <<>>,
     sources_used |-> IF llm_ok THEN out.sources_used ELSE <<>>,
     fallback |-> ~llm_ok]

\* a slip: the channel has no reducer, an update replaces the list
operator_replace(old, update) == update

\* messages: Annotated[list[DebateMessage], operator.add]: the list a node
\* returns under "messages" is concatenated to the transcript
operator_add(old, update) == old \o update

(***************************************************************************)
(* The graph                                                               *)
(***************************************************************************)
\* the channels of GraphState: a key a node returns that is none of them is dropped
GraphStateKeys == {"claim", "messages", "pro_sources", "contra_sources", "round_count",
                   "verdict", "max_iterations", "max_searches", "language",
                   "pro_personality", "contra_personality"}

\* state.get('research_depth', 1) in the agents
StateDepth == IF "research_depth" \in GraphStateKeys THEN research_depth ELSE 1

\* a slip: strictly more rounds than max_iterations are asked for before the debate ends
should_continue_gt(rc, max) == IF rc > max THEN "end" ELSE "continue"

\* should_continue(state)
should_continue(rc, max) == IF rc >= max THEN "end" ELSE "continue"

\* a slip: a confidence of exactly 50 asks for deep research too
adaptive_research_depth_le(msgs) ==
    IF msgs = <<>> THEN 1
    ELSE IF msgs[Len(msgs)].confidence <= 50 THEN 2 ELSE 1

\* adaptive_research_depth(state): the research_depth it returns
adaptive_research_depth(msgs) ==
    IF msgs = <<>> THEN 1
    ELSE IF msgs[Len(msgs)].confidence < 50 THEN 2 ELSE 1

\* extract_claim(state): whether extract_from_text is called
NeedsExtraction(c) == c.core_claim = "" \/ c.core_claim = c.raw_input

\* the core_claim a successful extraction may come back with: a distilled
\* sentence, or the input itself when that is one sentence already
ExtractedCores(c) == {"core", c.raw_input}

\* extract_from_text(text), its generative call answering with core
extract_from_text(text, core) == [raw_input |-> text, core_claim |-> core]

(***************************************************************************)
(* Specifications outside a session keep the session's variables at rest.  *)
(***************************************************************************)
idleVars == <<pc, claim, messages, round_count, max_iterations, max_searches, verdict,
              research_depth, issued, llm_succeeded, tool_invoked>>

NoVerdict == [verdict |-> Null, confidence_score |-> 0, rounds_completed |-> 0,
              total_sources_checked |-> 0, consensus_facts |-> <<>>,
              disputed_points |-> <<>>, sources_used |-> <<>>, fallback |-> FALSE]

NoOp == [op |-> "none", key |-> <<>>, present |-> FALSE, age |-> 0,
         stored |-> <<>>, results |-> <<>>, invoked |-> 0, issued |-> 0, passed |-> 0,
         raised |-> FALSE, limit |-> -1, tools |-> <<>>, tiers |-> <<>>,
         msg |-> NoMessage]

IdleInit ==
    /\ pc = "idle"
    /\ claim = [raw_input |-> "raw", core_claim |-> "raw"]
    /\ messages = <<>>
    /\ round_count = 0
    /\ max_iterations = 3
    /\ max_searches = -1
    /\ verdict = NoVerdict
    /\ research_depth = 1
    /\ issued = [r \in {"PRO", "CONTRA"} |-> 0]
    /\ llm_succeeded = FALSE
    /\ tool_invoked = FALSE

\* ToolManager.__init__ and BaseAgent.__init__
\* no thread is running
NoThreads == <<>>

ToolsInit ==
    /\ search_cache = <<>>
    /\ url_cache = <<>>
    /\ now = 0
    /\ search_count = 0
    /\ last = NoOp
    /\ threads = NoThreads

Queries == {"q"}
SearchTools == {"brave", "duckduckgo", "google_pse_factcheck"}
\* the pages fetched: one more than the URL cache holds
PageUrls == {UrlA, UrlB, "http://c.com", "http://d.com"}
SmallOutcomes == {Raises, [raises |-> FALSE, results |-> <<UrlA>>]}
\* the searches think() makes: CONTRA through BaseAgent.search, PRO through its override
AgentSearches == {<<"CONTRA", "fact_check_first">>, <<"CONTRA", "web_deep_dive">>,
                  <<"CONTRA", "basic">>, <<"PRO", "institutional">>}

(***************************************************************************)
(* SpecCache: any sequence of search_web, get_url and clear_cache calls on *)
(* one ToolManager by a single thread, with time passing in between.       *)
(***************************************************************************)
\* the record of a cache operation: whether its key was cached when it was made,
\* and the age of that entry
Seen(cache, key, t, op) ==
    [NoOp EXCEPT !.op = op,
                 !.key = key,
                 !.present = CacheHas(cache, key),
                 !.age = IF CacheHas(cache, key)
                         THEN t - cache[CacheIndex(cache, key)].timestamp ELSE 0]

\* what a tool called by search_web can do, a NotImplementedError included
CacheOutcomes ==
    SmallOutcomes \cup {NotImplemented(fb) : fb \in SmallOutcomes}

CacheSearch ==
    /\ \E q \in Queries, tool \in SearchTools, out \in CacheOutcomes :
       \E r \in {search_web(search_cache, q, tool, out, now)} :
           /\ search_cache' = r.cache
           /\ last' = [Seen(search_cache, <<q, tool>>, now, "search_web") EXCEPT
                          !.raised = r.raised, !.invoked = r.invoked,
                          !.results = r.results]
           /\ UNCHANGED <<url_cache, now, search_count, pse_creds>>
           /\ UNCHANGED idleVars
    /\ UNCHANGED threads

CacheFetch ==
    /\ \E u \in PageUrls :
           /\ url_cache' = get_url(url_cache, u, "PRO", now).cache
           /\ last' = Seen(url_cache, u, now, "get_url")
           /\ UNCHANGED <<search_cache, now, search_count, pse_creds>>
           /\ UNCHANGED idleVars
    /\ UNCHANGED threads

\* ToolManager.clear_cache
clear_cache ==
    /\ search_cache' = <<>>
    /\ url_cache' = <<>>

CacheClear ==
    /\ search_cache # <<>> \/ url_cache # <<>>
    /\ clear_cache
    /\ last' = [NoOp EXCEPT !.op = "clear_cache"]
    /\ UNCHANGED <<now, search_count, pse_creds>>
    /\ UNCHANGED idleVars
    /\ UNCHANGED threads

CacheTick ==
    /\ now < MaxTime
    /\ now' = now + 1
    /\ last' = [NoOp EXCEPT !.op = "tick"]
    /\ UNCHANGED <<search_cache, url_cache, search_count, pse_creds>>
    /\ UNCHANGED idleVars
    /\ UNCHANGED threads

SpecCacheInit == IdleInit /\ ToolsInit /\ pse_creds = FALSE

SpecCacheNext == CacheSearch \/ CacheFetch \/ CacheClear \/ CacheTick

SpecCache == SpecCacheInit /\ [][SpecCacheNext]_vars

(***************************************************************************)
(* SpecPages: page fetches through get_url over more distinct pages than   *)
(* the URL cache can hold, with time passing in between, so that entries   *)
(* expire, are refreshed and are evicted.                                  *)
(***************************************************************************)
SpecPagesInit == IdleInit /\ ToolsInit /\ pse_creds = FALSE

SpecPagesNext == CacheFetch \/ CacheTick

SpecPages == SpecPagesInit /\ [][SpecPagesNext]_vars

(***************************************************************************)
(* SpecTools: one agent instance searching through one ToolManager, next   *)
(* to direct search_web calls.  last records the most recent call: whether *)
(* its key (for an agent search: the general tool's key) was cached when   *)
(* it was made, the age of that entry, the payload that entry was written  *)
(* with, the list returned, and the numbers of underlying search() calls,  *)
(* of searches let through by the budget guard and of search_web calls.    *)
(***************************************************************************)
Probe(cache, key, t, op, r) ==
    [op |-> op, key |-> key, present |-> CacheHas(cache, key),
     age |-> IF CacheHas(cache, key) THEN t - cache[CacheIndex(cache, key)].timestamp ELSE 0,
     stored |-> IF CacheHas(cache, key) THEN cache[CacheIndex(cache, key)].stored ELSE <<>>,
     results |-> r.results, invoked |-> r.invoked, issued |-> r.issued, passed |-> r.passed,
     raised |-> FALSE, limit |-> -1, tools |-> r.tools, tiers |-> r.tiers,
     msg |-> NoMessage]

\* the tools a strategy calls first and second
FirstTool(strategy, creds) ==
    IF strategy = "fact_check_first" /\ creds THEN "google_pse_factcheck" ELSE "brave"

SecondTool(strategy) == IF strategy = "web_deep_dive" THEN "duckduckgo" ELSE "brave"

\* a tool is called on a miss only: on a hit what it would do is of no account
OutcomesFor(cache, key, t) == IF CacheFresh(cache, key, t) THEN {Raises} ELSE SmallOutcomes

ToolSearchWeb ==
    /\ \E q \in Queries, tool \in {"brave", "duckduckgo"} :
       \E out \in OutcomesFor(search_cache, <<q, tool>>, now) :
           LET r == OneTier(search_cache, search_count, q, tool, out, now)
           IN  /\ search_cache' = r.cache
               /\ last' = Probe(search_cache, <<q, tool>>, now, "search_web", r)
               /\ UNCHANGED <<url_cache, now, search_count, pse_creds>>
               /\ UNCHANGED idleVars
    /\ UNCHANGED threads

AgentSearch ==
    /\ \E q \in Queries, rs \in AgentSearches, ms \in -1..MaxSearches :
       \E o1 \in OutcomesFor(search_cache, <<q, FirstTool(rs[2], pse_creds)>>, now),
          o2 \in IF CacheFresh(search_cache, <<q, FirstTool(rs[2], pse_creds)>>, now)
                 THEN OutcomesFor(search_cache, <<q, SecondTool(rs[2])>>, now)
                 ELSE SmallOutcomes :
           LET role == rs[1]
               strategy == rs[2]
               r == IF role = "PRO"
                    THEN ProSearch(search_cache, search_count, q, strategy, ms, pse_creds, o1, o2, now)
                    ELSE BaseSearch(search_cache, search_count, q, strategy, ms, pse_creds, o1, o2, now)
           IN  /\ r.count <= MaxCount
               /\ Len(r.results) <= MaxListLen
               /\ search_cache' = r.cache
               /\ search_count' = r.count
               /\ last' = [Probe(search_cache, <<q, "brave">>, now, strategy, r)
                               EXCEPT !.limit = ms]
               /\ UNCHANGED <<url_cache, now, pse_creds>>
               /\ UNCHANGED idleVars
    /\ UNCHANGED threads

\* a new agent instance on the same ToolManager
NewAgent ==
    /\ search_count # 0
    /\ search_count' = 0
    /\ last' = [NoOp EXCEPT !.op = "new_agent"]
    /\ UNCHANGED <<search_cache, url_cache, now, pse_creds>>
    /\ UNCHANGED idleVars
    /\ UNCHANGED threads

ToolClear ==
    /\ search_cache # <<>>
    /\ clear_cache
    /\ last' = [NoOp EXCEPT !.op = "clear_cache"]
    /\ UNCHANGED <<now, search_count, pse_creds>>
    /\ UNCHANGED idleVars
    /\ UNCHANGED threads

ToolTick ==
    /\ now < MaxTime
    /\ now' = now + 1
    /\ last' = [NoOp EXCEPT !.op = "tick"]
    /\ UNCHANGED <<search_cache, url_cache, search_count, pse_creds>>
    /\ UNCHANGED idleVars
    /\ UNCHANGED threads

SpecToolsInit == IdleInit /\ ToolsInit /\ pse_creds \in BOOLEAN

SpecToolsNext == ToolSearchWeb \/ AgentSearch \/ NewAgent \/ ToolClear \/ ToolTick

SpecTools == SpecToolsInit /\ [][SpecToolsNext]_vars

(***************************************************************************)
(* Spec: one debate session run through the compiled graph                 *)
(*   START -> extract -> pro_opening -> contra_research -> adaptive_depth  *)
(*         -> pro_node -> contra_node -> (adaptive_depth | judge) -> END   *)
(* Each generative call succeeds or fails; each search tool, when it is    *)
(* invoked, raises or returns any list of SessionOutcomes.  A session runs *)
(* in a process whose ToolManager starts empty and without Google PSE      *)
(* credentials; no cache entry expires during a session.                   *)
(***************************************************************************)
SessionOutcomes ==
    {Raises} \cup {[raises |-> FALSE, results |-> l] :
                      l \in {<<>>, <<UrlA>>, <<UrlA, UrlA2>>, <<UrlA, UrlB>>, <<Null>>, <<BadUrl>>}}

SessionOutcomesFor(key) ==
    IF CacheFresh(search_cache, key, now) THEN {Raises} ELSE SessionOutcomes

\* cli.py run_verification / api websocket_endpoint: the initial state of a session
Init ==
    /\ pc = "extract"
    /\ claim \in {[raw_input |-> "raw", core_claim |-> "raw"],
                  [raw_input |-> "raw", core_claim |-> "core"]}
    /\ messages = <<>>
    /\ round_count = 0
    /\ max_iterations \in 1..MaxRounds
    /\ max_searches \in -1..MaxSearches
    /\ verdict = NoVerdict
    /\ research_depth = 1
    /\ issued = [r \in {"PRO", "CONTRA"} |-> 0]
    /\ llm_succeeded = FALSE
    /\ tool_invoked = FALSE
    /\ pse_creds = FALSE
    /\ ToolsInit

toolVars == <<search_cache, url_cache, now, search_count, last, pse_creds>>

\* a node raised: the exception leaves the graph and the session has no verdict
Raise ==
    /\ pc' = "raised"
    /\ UNCHANGED <<claim, messages, round_count, max_iterations, max_searches,
                   verdict, research_depth>>

\* the node extract: extract_claim(state)
Extract ==
    /\ pc = "extract"
    /\ IF NeedsExtraction(claim)
       THEN \E llm_ok \in BOOLEAN, core \in ExtractedCores(claim) :
              IF llm_ok
              THEN /\ claim' = extract_from_text(claim.raw_input, core)
                   /\ llm_succeeded' = TRUE
                   /\ pc' = "pro_opening"
                   /\ UNCHANGED <<messages, round_count, max_iterations, max_searches,
                                  verdict, research_depth>>
              ELSE Raise /\ UNCHANGED llm_succeeded
       ELSE /\ pc' = "pro_opening"
            /\ UNCHANGED <<claim, messages, round_count, max_iterations, max_searches,
                           verdict, research_depth, llm_succeeded>>
    /\ UNCHANGED <<issued, tool_invoked>>
    /\ UNCHANGED toolVars
    /\ UNCHANGED threads

\* a slip: the opening leaves the round counter alone
pro_opening_return_no_round(llm_ok) ==
    [messages |-> <<OpeningStatement(llm_ok)>>, round_count |-> 0, research_depth |-> 1]

\* the dict pro_opening(state) returns
pro_opening_return(llm_ok) ==
    [messages |-> <<OpeningStatement(llm_ok)>>, round_count |-> 1, research_depth |-> 1]

\* the node pro_opening
pro_opening ==
    /\ pc = "pro_opening"
    /\ \E llm_ok \in BOOLEAN :
       \E u \in {pro_opening_return(llm_ok)} :
         /\ messages' = operator_add(messages, u.messages)
         /\ round_count' = u.round_count
         /\ research_depth' = u.research_depth
         /\ llm_succeeded' = (llm_succeeded \/ llm_ok)
    /\ pc' = "contra_research"
    /\ search_count' = 0
    /\ UNCHANGED <<claim, max_iterations, max_searches, verdict, issued, tool_invoked>>
    /\ UNCHANGED <<search_cache, url_cache, now, last, pse_creds>>
    /\ UNCHANGED threads

\* the searches of ContraAgent.think(state) by a new agent instance.  The two
\* searches of a deep rebuttal run on two threads: order = 1 lets the fact-check
\* search finish before the deep dive starts, order = 2 the reverse.
ContraSearches(cache, depth, msgs, rc, ms, creds, o1, o2, o3, o4, order, t) ==
    IF ContraParallel(depth, msgs, rc)
    THEN IF order = 1
         THEN LET a == BaseSearch(cache, 0, ContraQuery(rc), "fact_check_first", ms, creds, o1, o2, t)
                  b == BaseSearch(a.cache, a.count, "debunk", "web_deep_dive", ms, creds, o3, o4, t)
              IN  [cache |-> b.cache, count |-> b.count, results |-> a.results \o b.results,
                   issued |-> a.issued + b.issued, passed |-> a.passed + b.passed,
                   invoked |-> a.invoked + b.invoked]
         ELSE LET b == BaseSearch(cache, 0, "debunk", "web_deep_dive", ms, creds, o3, o4, t)
                  a == BaseSearch(b.cache, b.count, ContraQuery(rc), "fact_check_first", ms, creds, o1, o2, t)
              IN  [cache |-> a.cache, count |-> a.count, results |-> a.results \o b.results,
                   issued |-> a.issued + b.issued, passed |-> a.passed + b.passed,
                   invoked |-> a.invoked + b.invoked]
    ELSE BaseSearch(cache, 0, ContraQuery(rc), "fact_check_first", ms, creds, o1, o2, t)

\* a slip: the node returns no message
contra_research_return_nothing(message) == [messages |-> <<>>]

\* the update contra_research returns
contra_research_return(message) == [messages |-> <<message>>]

\* a CONTRA node of the session: a new ContraAgent thinks; next is the node that follows
ContraStep(next) ==
    \E o2 \in SessionOutcomesFor(<<ContraQuery(round_count), "brave">>),
       o3 \in IF ContraParallel(StateDepth, messages, round_count)
              THEN SessionOutcomes ELSE {Raises},
       o4 \in IF ContraParallel(StateDepth, messages, round_count)
              THEN SessionOutcomes ELSE {Raises},
       order \in IF ContraParallel(StateDepth, messages, round_count) THEN {1, 2} ELSE {1},
       llm_ok \in BOOLEAN :
        \E r \in {ContraSearches(search_cache, StateDepth, messages, round_count, max_searches,
                                 pse_creds, Raises, o2, o3, o4, order, now)} :
        \E t \in {ContraThink(r.results, llm_ok, StateDepth, messages, round_count)} :
            /\ search_cache' = r.cache
            /\ search_count' = r.count
            /\ issued' = [issued EXCEPT !["CONTRA"] = @ + r.issued]
            /\ tool_invoked' = (tool_invoked \/ r.invoked > 0)
            /\ IF t.raised
               THEN Raise /\ UNCHANGED llm_succeeded
               ELSE /\ messages' = operator_add(messages,
                                               contra_research_return(t.msg).messages)
                    /\ llm_succeeded' = (llm_succeeded \/ llm_ok)
                    /\ pc' = next
                    /\ UNCHANGED <<claim, round_count, max_iterations, max_searches,
                                   verdict, research_depth>>
            /\ UNCHANGED <<url_cache, now, last, pse_creds>>

\* the node contra_research
contra_research ==
    /\ pc = "contra_research"
    /\ ContraStep("adaptive_depth")
    /\ UNCHANGED threads

\* the node adaptive_depth
AdaptiveDepth ==
    /\ pc = "adaptive_depth"
    /\ research_depth' = adaptive_research_depth(messages)
    /\ pc' = "pro_node"
    /\ UNCHANGED <<claim, messages, round_count, max_iterations, max_searches, verdict,
                   issued, llm_succeeded, tool_invoked>>
    /\ UNCHANGED toolVars
    /\ UNCHANGED threads

\* ProAgent.think(state) by a new agent instance, search included
ProTurnThink(cache, llm_ok, depth, msgs, rc, ms, creds, o1, t) ==
    IF depth = 0
    THEN [search |-> Refused(cache, 0), thought |-> Returned(OpeningStatement(llm_ok))]
    ELSE LET r == ProSearch(cache, 0, "claim", "institutional", ms, creds, o1, Raises, t)
         IN  [search |-> r, thought |-> ProThink(r.results, llm_ok, depth, msgs, rc)]

\* pro_turn(state): the round counter plus one, and the argument of a new ProAgent
pro_turn(cache, llm_ok, depth, msgs, rc, ms, creds, o1, t) ==
    LET p == ProTurnThink(cache, llm_ok, depth, msgs, rc + 1, ms, creds, o1, t)
    IN  [search |-> p.search, thought |-> p.thought, round_count |-> rc + 1]

\* the node pro_node
pro_node ==
    /\ pc = "pro_node"
    /\ \E o1 \in SessionOutcomesFor(<<"claim", "brave">>), llm_ok \in BOOLEAN :
        \E u \in {pro_turn(search_cache, llm_ok, StateDepth, messages, round_count,
                           max_searches, pse_creds, o1, now)} :
            /\ search_cache' = u.search.cache
            /\ search_count' = u.search.count
            /\ issued' = [issued EXCEPT !["PRO"] = @ + u.search.issued]
            /\ tool_invoked' = (tool_invoked \/ u.search.invoked > 0)
            /\ IF u.thought.raised
               THEN Raise /\ llm_succeeded' = (llm_succeeded \/ llm_ok)
               ELSE /\ messages' = operator_add(messages, <<u.thought.msg>>)
                    /\ round_count' = u.round_count
                    /\ llm_succeeded' = (llm_succeeded \/ llm_ok)
                    /\ pc' = "contra_node"
                    /\ UNCHANGED <<claim, max_iterations, max_searches, verdict, research_depth>>
            /\ UNCHANGED <<url_cache, now, last, pse_creds>>
    /\ UNCHANGED threads

\* contra_turn(state) and the conditional edge that follows it: the node the graph
\* runs after contra_node
after_contra_node(rc, max) ==
    IF should_continue(rc, max) = "end" THEN "judge" ELSE "adaptive_depth"

\* the node contra_node
contra_node ==
    /\ pc = "contra_node"
    /\ ContraStep(after_contra_node(round_count, max_iterations))
    /\ UNCHANGED threads

\* the node judge
judge_verdict ==
    /\ pc = "judge"
    /\ \E llm_ok \in BOOLEAN, out \in JudgeOutputs :
         /\ llm_ok \/ out = CHOOSE o \in JudgeOutputs : TRUE
         /\ verdict' = JudgeThink(llm_ok, out, messages, round_count)
         /\ llm_succeeded' = (llm_succeeded \/ llm_ok)
    /\ pc' = "END"
    /\ UNCHANGED <<claim, messages, round_count, max_iterations, max_searches,
                   research_depth, issued, tool_invoked>>
    /\ UNCHANGED toolVars
    /\ UNCHANGED threads

Next ==
    \/ Extract
    \/ pro_opening
    \/ contra_research
    \/ AdaptiveDepth
    \/ pro_node
    \/ contra_node
    \/ judge_verdict

Spec == Init /\ [][Next]_vars

(***************************************************************************)
(* SpecUnit: the node function adaptive_research_depth and the agents'     *)
(* think() called on any state dict, as the unit tests call them: the      *)
(* transcript, round_count and research_depth are whatever the caller put  *)
(* in the dict, and research_depth is read from the dict itself.           *)
(***************************************************************************)
UnitConfidences == {49, 50, 51}

UnitMessages ==
    {[round |-> 0, agent |-> a, message_type |-> "argument", content |-> Generated,
      sources |-> <<>>, confidence |-> c] : a \in {"PRO", "CONTRA"}, c \in UnitConfidences}

UnitOutcomes == {Raises, [raises |-> FALSE, results |-> <<UrlA, UrlA2>>]}

Did(op) == [NoOp EXCEPT !.op = op]

unitRest == <<pc, claim, max_iterations, verdict, issued, llm_succeeded, tool_invoked,
              url_cache, now, pse_creds>>

\* the caller appends a message to the transcript of the dict
UnitAppend ==
    /\ Len(messages) < MaxTranscript
    /\ \E m \in UnitMessages : messages' = Append(messages, m)
    /\ last' = Did("append")
    /\ UNCHANGED <<round_count, research_depth, max_searches, search_cache, search_count>>
    /\ UNCHANGED unitRest
    /\ UNCHANGED threads

\* the caller sets round_count and research_depth of the dict
UnitSet ==
    /\ \E rc \in 0..1, d \in 0..2 :
         /\ round_count' = rc
         /\ research_depth' = d
    /\ last' = Did("set")
    /\ UNCHANGED <<messages, max_searches, search_cache, search_count>>
    /\ UNCHANGED unitRest
    /\ UNCHANGED threads

\* adaptive_research_depth(state), its update merged into the dict
UnitAdaptiveDepth ==
    /\ research_depth' = adaptive_research_depth(messages)
    /\ last' = Did("adaptive_depth")
    /\ UNCHANGED <<messages, round_count, max_searches, search_cache, search_count>>
    /\ UNCHANGED unitRest
    /\ UNCHANGED threads

\* ProAgent(...).think(state), the message appended to the transcript
UnitProThink ==
    /\ Len(messages) < MaxTranscript
    /\ \E o1 \in UnitOutcomes, llm_ok \in BOOLEAN :
       \E u \in {ProTurnThink(search_cache, llm_ok, research_depth, messages, round_count,
                              max_searches, pse_creds, o1, now)} :
            /\ search_cache' = u.search.cache
            /\ search_count' = u.search.count
            /\ IF u.thought.raised
               THEN /\ last' = Did("pro_think raised")
                    /\ UNCHANGED messages
               ELSE /\ last' = Did("pro_think")
                    /\ messages' = Append(messages, u.thought.msg)
    /\ UNCHANGED <<round_count, research_depth, max_searches>>
    /\ UNCHANGED unitRest
    /\ UNCHANGED threads

\* ContraAgent(...).think(state), the message appended to the transcript
UnitContraThink ==
    /\ Len(messages) < MaxTranscript
    /\ \E o2 \in UnitOutcomes, o3 \in UnitOutcomes, o4 \in UnitOutcomes,
          order \in {1, 2}, llm_ok \in BOOLEAN :
       \E r \in {ContraSearches(search_cache, research_depth, messages, round_count,
                                max_searches, pse_creds, Raises, o2, o3, o4, order, now)} :
       \E t \in {ContraThink(r.results, llm_ok, research_depth, messages, round_count)} :
            /\ search_cache' = r.cache
            /\ search_count' = r.count
            /\ IF t.raised
               THEN /\ last' = Did("contra_think raised")
                    /\ UNCHANGED messages
               ELSE /\ last' = Did("contra_think")
                    /\ messages' = Append(messages, t.msg)
    /\ UNCHANGED <<round_count, research_depth, max_searches>>
    /\ UNCHANGED unitRest
    /\ UNCHANGED threads

\* the caller starts over with an empty transcript and a new ToolManager
UnitReset ==
    /\ messages # <<>>
    /\ messages' = <<>>
    /\ search_cache' = <<>>
    /\ search_count' = 0
    /\ last' = Did("reset")
    /\ UNCHANGED <<round_count, research_depth, max_searches>>
    /\ UNCHANGED unitRest
    /\ UNCHANGED threads

SpecUnitInit == IdleInit /\ ToolsInit /\ pse_creds = FALSE

SpecUnitNext ==
    \/ UnitAppend
    \/ UnitSet
    \/ UnitAdaptiveDepth
    \/ UnitProThink
    \/ UnitContraThink
    \/ UnitReset

SpecUnit == SpecUnitInit /\ [][SpecUnitNext]_vars

(***************************************************************************)
(* SpecCited: think() of a new agent on a new ToolManager, called on any   *)
(* state dict with tools that return from no result up to more results     *)
(* than any cap on sources.  last keeps the list the searches of the call  *)
(* returned and the message think returned.                                *)
(***************************************************************************)
\* a tool returning the first n of many results
ManyOutcome(n) == [raises |-> FALSE, results |-> Take(ManyResults, n)]

Thought(op, results, m) == [Did(op) EXCEPT !.results = results, !.msg = m]

\* the caller appends a message of PRO or of CONTRA to the transcript of the dict
CitedAppend ==
    /\ Len(messages) < MaxTranscript
    /\ \E m \in {um \in UnitMessages : um.confidence = 50} :
           messages' = Append(messages, m)
    /\ last' = Did("append")
    /\ UNCHANGED <<round_count, research_depth, max_searches, search_cache, search_count>>
    /\ UNCHANGED unitRest
    /\ UNCHANGED threads

CitedProThink ==
    /\ \E n \in 0..Len(ManyResults), llm_ok \in BOOLEAN :
       \E u \in {ProTurnThink(<<>>, llm_ok, research_depth, messages, round_count,
                              max_searches, pse_creds, ManyOutcome(n), now)} :
            /\ search_cache' = u.search.cache
            /\ search_count' = u.search.count
            /\ last' = IF u.thought.raised
                       THEN Did("pro_think raised")
                       ELSE Thought("pro_think", u.search.results, u.thought.msg)
    /\ UNCHANGED <<messages, round_count, research_depth, max_searches>>
    /\ UNCHANGED unitRest
    /\ UNCHANGED threads

CitedContraThink ==
    /\ \E n \in 0..Len(ManyResults), order \in {1, 2}, llm_ok \in BOOLEAN :
       \E r \in {ContraSearches(<<>>, research_depth, messages, round_count,
                                max_searches, pse_creds, Raises, ManyOutcome(n),
                                ManyOutcome(n), ManyOutcome(n), order, now)} :
       \E t \in {ContraThink(r.results, llm_ok, research_depth, messages, round_count)} :
            /\ search_cache' = r.cache
            /\ search_count' = r.count
            /\ last' = IF t.raised
                       THEN Did("contra_think raised")
                       ELSE Thought("contra_think", r.results, t.msg)
    /\ UNCHANGED <<messages, round_count, research_depth, max_searches>>
    /\ UNCHANGED unitRest
    /\ UNCHANGED threads

SpecCitedInit == IdleInit /\ ToolsInit /\ pse_creds = FALSE

SpecCitedNext ==
    \/ CitedAppend
    \/ UnitSet
    \/ CitedProThink
    \/ CitedContraThink
    \/ UnitReset

SpecCited == SpecCitedInit /\ [][SpecCitedNext]_vars

(***************************************************************************)
(* SpecExtract: the node function extract_claim called, any number of      *)
(* times, on a state dict the caller built; its update is merged into the  *)
(* dict.  last.invoked counts the calls of extract_from_text it made.      *)
(***************************************************************************)
ExtractClaims ==
    {[raw_input |-> "raw", core_claim |-> c] : c \in {"", "raw", "core"}}

extractRest == <<round_count, research_depth, max_searches, search_cache, search_count,
                 max_iterations, verdict, issued, llm_succeeded, tool_invoked,
                 url_cache, now, pse_creds>>

\* the caller puts a claim into the dict
ExtractSet ==
    /\ pc = "idle"
    /\ \E c \in ExtractClaims : claim' = c
    /\ last' = Did("set")
    /\ UNCHANGED <<pc, messages>>
    /\ UNCHANGED extractRest
    /\ UNCHANGED threads

\* the caller runs the session's first nodes on the dict, up to extract
ExtractEnter ==
    /\ pc = "idle"
    /\ pc' = "extract"
    /\ last' = Did("enter")
    /\ UNCHANGED <<claim, messages>>
    /\ UNCHANGED extractRest
    /\ UNCHANGED threads

\* extract_claim(state): {"claim": extracted} or {} is merged into the dict
ExtractRun ==
    /\ pc = "extract"
    /\ IF NeedsExtraction(claim)
       THEN \E llm_ok \in BOOLEAN, core \in ExtractedCores(claim) :
              IF llm_ok
              THEN /\ claim' = extract_from_text(claim.raw_input, core)
                   /\ last' = [Did("extract") EXCEPT !.invoked = 1]
              ELSE /\ UNCHANGED claim
                   /\ last' = [Did("extract raised") EXCEPT !.invoked = 1]
       ELSE /\ UNCHANGED claim
            /\ last' = Did("extract")
    /\ UNCHANGED <<pc, messages>>
    /\ UNCHANGED extractRest
    /\ UNCHANGED threads

\* the caller puts the dict aside and starts over
ExtractLeave ==
    /\ pc = "extract"
    /\ pc' = "idle"
    /\ messages' = <<>>
    /\ last' = Did("leave")
    /\ UNCHANGED claim
    /\ UNCHANGED extractRest
    /\ UNCHANGED threads

\* the caller appends a message to the transcript of the dict
ExtractAppend ==
    /\ pc = "idle"
    /\ Len(messages) < MaxTranscript
    /\ \E m \in UnitMessages : messages' = Append(messages, m)
    /\ last' = Did("append")
    /\ UNCHANGED <<pc, claim>>
    /\ UNCHANGED extractRest
    /\ UNCHANGED threads

SpecExtractInit == IdleInit /\ ToolsInit /\ pse_creds = FALSE

SpecExtractNext ==
    \/ ExtractSet
    \/ ExtractAppend
    \/ ExtractEnter
    \/ ExtractRun
    \/ ExtractLeave

SpecExtract == SpecExtractInit /\ [][SpecExtractNext]_vars

(***************************************************************************)
(* SpecRound: the node function debate_round (orchestrator/debate.py)      *)
(* called on a state dict the caller built, its update merged into the     *)
(* dict: messages through the reducer, round_count replaced.               *)
(***************************************************************************)
\* the update debate_round returns
debate_round_return(pro_message, contra_message, rc) ==
    [messages |-> <<pro_message, contra_message>>, round_count |-> rc + 1]

\* debate_round(state): CONTRA thinks on the state, PRO on a copy of it with
\* CONTRA's message appended; the ToolManager and the agents are made by the
\* call and dropped at its end
debate_round ==
    /\ \E o1 \in UnitOutcomes, o2 \in UnitOutcomes, o3 \in UnitOutcomes, o4 \in UnitOutcomes,
          order \in {1, 2}, contra_ok \in BOOLEAN, pro_ok \in BOOLEAN :
       \E r \in {ContraSearches(<<>>, research_depth, messages, round_count,
                                max_searches, pse_creds, Raises, o2, o3, o4, order, now)} :
       \E c \in {ContraThink(r.results, contra_ok, research_depth, messages, round_count)} :
       \E p \in {IF c.raised
                 THEN [search |-> Refused(r.cache, 0), thought |-> Raised]
                 ELSE ProTurnThink(r.cache, pro_ok, research_depth, Append(messages, c.msg),
                                   round_count, max_searches, pse_creds, o1, now)} :
            /\ IF p.thought.raised
               THEN /\ last' = Did("debate_round raised")
                    /\ UNCHANGED <<messages, round_count>>
               ELSE \E u \in {debate_round_return(p.thought.msg, c.msg, round_count)} :
                      /\ last' = Did("debate_round")
                      /\ messages' = operator_add(messages, u.messages)
                      /\ round_count' = u.round_count
    /\ Len(messages) <= MaxTranscript
    /\ round_count < MaxRounds
    /\ UNCHANGED <<research_depth, max_searches, search_cache, search_count>>
    /\ UNCHANGED unitRest
    /\ UNCHANGED threads

SpecRoundInit == IdleInit /\ ToolsInit /\ pse_creds = FALSE

SpecRoundNext ==
    \/ CitedAppend
    \/ UnitSet
    \/ debate_round
    \/ UnitReset

SpecRound == SpecRoundInit /\ [][SpecRoundNext]_vars

(***************************************************************************)
(* SpecEntry: the two entry points of a session, the WebSocket endpoint    *)
(* (api/main.py) and run_verification (cli.py), each given any             *)
(* configuration, followed by the run of the graph on the state they build.*)
(* last keeps the entry point and the language and personality tags.       *)
(***************************************************************************)
ApiMaxIterations == 10
ApiMaxSearches == 100

Languages == {"Italian", "English"}
Personalities == {"PASSIVE", "ASSERTIVE", "AGGRESSIVE"}

\* the configurations submitted: in range, just below and just above the range
EntryIterations == {-1, 0, 1, ApiMaxIterations + 1}
EntrySearches == {-2, -1, ApiMaxSearches + 1}
EntryLanguages == {"Italian", "Klingon"}
EntryPersonalities == {"ASSERTIVE", "RUDE"}

\* VerificationRequest(**json.loads(data)): the field constraints
VerificationRequest(mi, ms, lang, pro, contra) ==
    /\ mi >= 1 /\ mi <= ApiMaxIterations
    /\ ms >= -1 /\ ms <= ApiMaxSearches
    /\ lang \in Languages
    /\ pro \in Personalities
    /\ contra \in Personalities

\* initial_state = {...} followed by the start of the graph
StartSession(mi, ms) ==
    /\ pc' = "extract"
    /\ claim' \in {[raw_input |-> "raw", core_claim |-> "raw"],
                   [raw_input |-> "raw", core_claim |-> "core"]}
    /\ messages' = <<>>
    /\ round_count' = 0
    /\ max_iterations' = mi
    /\ max_searches' = ms
    /\ verdict' = NoVerdict
    /\ UNCHANGED <<research_depth, issued, llm_succeeded, tool_invoked>>

\* websocket_endpoint: the request is validated, then the graph is streamed
ApiRequest ==
    /\ pc = "idle"
    /\ \E mi \in EntryIterations, ms \in EntrySearches, lang \in EntryLanguages,
          pro \in EntryPersonalities, contra \in EntryPersonalities :
         /\ last' = [NoOp EXCEPT !.op = "api", !.key = <<lang, pro, contra>>]
         /\ IF VerificationRequest(mi, ms, lang, pro, contra)
            THEN StartSession(mi, ms)
            ELSE /\ pc' = "rejected"
                 /\ UNCHANGED <<claim, messages, round_count, max_iterations, max_searches,
                                verdict, research_depth, issued, llm_succeeded, tool_invoked>>
    /\ UNCHANGED <<search_cache, url_cache, now, search_count, pse_creds>>
    /\ UNCHANGED threads

\* run_verification(input_text, max_iterations=..., max_searches=...): the state is
\* built from the arguments as they are and the graph is invoked; language and
\* personalities are left to the defaults of the nodes
CliRun ==
    /\ pc = "idle"
    /\ \E mi \in EntryIterations \ {ApiMaxIterations + 1}, ms \in EntrySearches :
         StartSession(mi, ms)
    /\ last' = [NoOp EXCEPT !.op = "cli", !.key = <<"Italian", "ASSERTIVE", "ASSERTIVE">>]
    /\ UNCHANGED <<search_cache, url_cache, now, search_count, pse_creds>>
    /\ UNCHANGED threads

SpecEntryInit == IdleInit /\ ToolsInit /\ pse_creds = FALSE

SpecEntryNext == ApiRequest \/ CliRun \/ Next

SpecEntry == SpecEntryInit /\ [][SpecEntryNext]_vars

(***************************************************************************)
(* SpecParallel: a session, or the node parallel_research called on the    *)
(* state extract leaves.  The node submits PRO's and CONTRA's research to   *)
(* two worker threads sharing the ToolManager, waits for both and returns   *)
(* the two messages.                                                       *)
(***************************************************************************)
Roles == {"PRO", "CONTRA"}

Submitted == [at |-> "running", msg |-> NoMessage, order |-> 0]

\* the workers that have finished
Finished == {a \in Roles : threads[a].at # "running"}

\* a slip: the messages are returned in the order the workers finished
parallel_research_as_completed(pro_message, contra_message, first) ==
    IF first = "CONTRA" THEN <<contra_message, pro_message>>
    ELSE <<pro_message, contra_message>>

\* the list parallel_research returns under "messages"
parallel_research_return(pro_message, contra_message, first) ==
    <<pro_message, contra_message>>

parallelRest == <<claim, messages, round_count, max_iterations, max_searches, verdict,
                  research_depth, url_cache, now, last, pse_creds>>

\* parallel_research: executor.submit of the two research functions
ParSubmit ==
    /\ pc = "parallel_research"
    /\ pc' = "parallel_wait"
    /\ threads' = [a \in Roles |-> Submitted]
    /\ UNCHANGED <<search_cache, search_count, issued, llm_succeeded, tool_invoked>>
    /\ UNCHANGED parallelRest

\* what a worker leaves in its future
Future(thought) ==
    [at |-> IF thought.raised THEN "raised" ELSE "done", msg |-> thought.msg,
     order |-> Cardinality(Finished) + 1]

\* pro_research_internal(state) on its worker thread
pro_research_internal ==
    /\ pc = "parallel_wait"
    /\ threads["PRO"].at = "running"
    /\ \E o1 \in SessionOutcomesFor(<<"claim", "brave">>), llm_ok \in BOOLEAN :
       \E u \in {ProTurnThink(search_cache, llm_ok, StateDepth, messages, round_count,
                              max_searches, pse_creds, o1, now)} :
            /\ search_cache' = u.search.cache
            /\ search_count' = u.search.count
            /\ issued' = [issued EXCEPT !["PRO"] = @ + u.search.issued]
            /\ tool_invoked' = (tool_invoked \/ u.search.invoked > 0)
            /\ llm_succeeded' = (llm_succeeded \/ llm_ok)
            /\ threads' = [threads EXCEPT !["PRO"] = Future(u.thought)]
    /\ UNCHANGED pc
    /\ UNCHANGED parallelRest

\* contra_research_internal(state) on its worker thread: ContraAgent.think on an
\* empty transcript, which makes the single fact_check_first search
contra_research_internal ==
    /\ pc = "parallel_wait"
    /\ threads["CONTRA"].at = "running"
    /\ ~ContraParallel(StateDepth, messages, round_count)
    /\ \E o2 \in SessionOutcomesFor(<<ContraQuery(round_count), "brave">>),
          llm_ok \in BOOLEAN :
       \E r \in {BaseSearch(search_cache, 0, ContraQuery(round_count), "fact_check_first",
                            max_searches, pse_creds, Raises, o2, now)} :
       \E t \in {ContraThink(r.results, llm_ok, StateDepth, messages, round_count)} :
            /\ search_cache' = r.cache
            /\ search_count' = r.count
            /\ issued' = [issued EXCEPT !["CONTRA"] = @ + r.issued]
            /\ tool_invoked' = (tool_invoked \/ r.invoked > 0)
            /\ llm_succeeded' = (llm_succeeded \/ (llm_ok /\ ~t.raised))
            /\ threads' = [threads EXCEPT !["CONTRA"] = Future(t)]
    /\ UNCHANGED pc
    /\ UNCHANGED parallelRest

\* parallel_research: both future.result() calls and the end of the with block,
\* which waits for both workers; an exception of a worker leaves the node
parallel_research ==
    /\ pc = "parallel_wait"
    /\ Finished = Roles
    /\ IF \E a \in Roles : threads[a].at = "raised"
       THEN Raise
       ELSE /\ messages' = operator_add(messages,
                              parallel_research_return(threads["PRO"].msg, threads["CONTRA"].msg,
                                  CHOOSE a \in Roles : threads[a].order = 1))
            /\ pc' = "joined"
            /\ UNCHANGED <<claim, round_count, max_iterations, max_searches, verdict,
                           research_depth>>
    /\ UNCHANGED <<search_cache, search_count, issued, llm_succeeded, tool_invoked, threads>>
    /\ UNCHANGED <<url_cache, now, last, pse_creds>>

SpecParallelInit ==
    /\ pc \in {"extract", "parallel_research"}
    /\ claim \in {[raw_input |-> "raw", core_claim |-> "raw"],
                  [raw_input |-> "raw", core_claim |-> "core"]}
    /\ pc = "parallel_research" => claim.core_claim = "core"
    /\ messages = <<>>
    /\ round_count = 0
    /\ max_iterations \in 1..MaxRounds
    /\ max_searches \in -1..MaxSearches
    /\ verdict = NoVerdict
    /\ research_depth = 1
    /\ issued = [r \in Roles |-> 0]
    /\ llm_succeeded = FALSE
    /\ tool_invoked = FALSE
    /\ pse_creds = FALSE
    /\ ToolsInit

SpecParallelNext ==
    \/ ParSubmit
    \/ pro_research_internal
    \/ contra_research_internal
    \/ parallel_research
    \/ Next

SpecParallel == SpecParallelInit /\ [][SpecParallelNext]_vars

(***************************************************************************)
(* SpecThreads: two threads call search_web on the shared ToolManager.  The *)
(* interpreter may switch threads between any two accesses to the cache, so *)
(* each access of search_web and _add_to_cache is a step of its own.        *)
(***************************************************************************)
ThreadIds == {1, 2}

\* the searches the threads make: the cached ones and one for another query
ThreadKeys == {<<q, tool>> : q \in Queries, tool \in SearchTools} \cup {<<"q2", "brave">>}

\* a thread outside search_web
IdleThread == [at |-> "idle", key |-> <<>>, timestamp |-> 0, results |-> <<>>,
               evicted_key |-> <<>>, invoked |-> 0, overlapped |-> FALSE]

\* the thread is inside search_web
InFlight(th) == th.at \notin {"idle", "returned", "raised"}

Other(t) == CHOOSE u \in ThreadIds : u # t

\* cache.pop(key) of a key that is there
CachePop(cache, key) == SelectSeq(cache, LAMBDA e : e.key # key)

threadRest == <<url_cache, search_count, last, pse_creds>>

\* each thread makes one call of search_web(query, tool): timestamp = time.time()
ThreadEnter(t) ==
    /\ threads[t].at = "idle"
    /\ \E key \in ThreadKeys :
        LET both == InFlight(threads[Other(t)]) /\ threads[Other(t)].key = key
        IN  threads' = [threads EXCEPT
                          ![t] = [IdleThread EXCEPT !.at = "lookup", !.key = key,
                                                    !.timestamp = now, !.overlapped = both],
                          ![Other(t)].overlapped = @ \/ both]
    /\ UNCHANGED <<search_cache, now>>
    /\ UNCHANGED threadRest
    /\ UNCHANGED idleVars

\* query_hash in self.search_cache
ThreadLookup(t) ==
    /\ threads[t].at = "lookup"
    /\ threads' = [threads EXCEPT ![t].at = IF CacheHas(search_cache, threads[t].key)
                                            THEN "stamp" ELSE "call"]
    /\ UNCHANGED <<search_cache, now>>
    /\ UNCHANGED threadRest
    /\ UNCHANGED idleVars

\* (timestamp - self.search_cache[query_hash]['timestamp']) < self.ttl: a KeyError if
\* the entry has gone since the membership test
ThreadStamp(t) ==
    /\ threads[t].at = "stamp"
    /\ threads' = [threads EXCEPT ![t].at =
                      IF ~CacheHas(search_cache, threads[t].key) THEN "raised"
                      ELSE IF threads[t].timestamp
                              - search_cache[CacheIndex(search_cache, threads[t].key)].timestamp < TTL
                      THEN "read" ELSE "call"]
    /\ UNCHANGED <<search_cache, now>>
    /\ UNCHANGED threadRest
    /\ UNCHANGED idleVars

\* return self.search_cache[query_hash]['results']
ThreadRead(t) ==
    /\ threads[t].at = "read"
    /\ threads' = [threads EXCEPT ![t] =
                      IF ~CacheHas(search_cache, threads[t].key)
                      THEN [@ EXCEPT !.at = "raised"]
                      ELSE [@ EXCEPT !.at = "returned",
                                     !.results = search_cache[CacheIndex(search_cache, threads[t].key)].value]]
    /\ UNCHANGED <<search_cache, now>>
    /\ UNCHANGED threadRest
    /\ UNCHANGED idleVars

\* results = search(query, tool=tool, count=10), [] if it raises
ThreadInvoke(t) ==
    /\ threads[t].at = "call"
    /\ \E out \in SmallOutcomes :
       \E got \in {search(threads[t].key[2], out)} :
          threads' = [threads EXCEPT ![t] =
                         [@ EXCEPT !.at = "size", !.invoked = 1,
                                   !.results = IF got.raises THEN <<>> ELSE got.results]]
    /\ UNCHANGED <<search_cache, now>>
    /\ UNCHANGED threadRest
    /\ UNCHANGED idleVars

\* _add_to_cache: len(cache) >= self.MAX_CACHE_SIZE
ThreadSize(t) ==
    /\ threads[t].at = "size"
    /\ threads' = [threads EXCEPT ![t].at = IF Len(search_cache) >= MAX_CACHE_SIZE
                                            THEN "pick" ELSE "store"]
    /\ UNCHANGED <<search_cache, now>>
    /\ UNCHANGED threadRest
    /\ UNCHANGED idleVars

\* _add_to_cache: evicted_key = next(iter(cache)), StopIteration on an empty cache
ThreadPick(t) ==
    /\ threads[t].at = "pick"
    /\ threads' = [threads EXCEPT ![t] =
                      IF search_cache = <<>>
                      THEN [@ EXCEPT !.at = "raised"]
                      ELSE [@ EXCEPT !.at = "pop", !.evicted_key = search_cache[1].key]]
    /\ UNCHANGED <<search_cache, now>>
    /\ UNCHANGED threadRest
    /\ UNCHANGED idleVars

\* _add_to_cache: cache.pop(evicted_key), a KeyError if the key has gone
ThreadPop(t) ==
    /\ threads[t].at = "pop"
    /\ IF CacheHas(search_cache, threads[t].evicted_key)
       THEN /\ search_cache' = CachePop(search_cache, threads[t].evicted_key)
            /\ threads' = [threads EXCEPT ![t].at = "store"]
       ELSE /\ threads' = [threads EXCEPT ![t].at = "raised"]
            /\ UNCHANGED search_cache
    /\ UNCHANGED now
    /\ UNCHANGED threadRest
    /\ UNCHANGED idleVars

\* _add_to_cache: cache[key] = value, and search_web returns the results
ThreadStore(t) ==
    /\ threads[t].at = "store"
    /\ search_cache' = CachePut(search_cache, threads[t].key, threads[t].results,
                                threads[t].timestamp)
    /\ threads' = [threads EXCEPT ![t] = [@ EXCEPT !.at = "returned", !.timestamp = 0,
                                                   !.evicted_key = <<>>]]
    /\ UNCHANGED now
    /\ UNCHANGED threadRest
    /\ UNCHANGED idleVars

ThreadTick ==
    /\ now < MaxTime
    /\ now' = now + 1
    /\ UNCHANGED <<search_cache, threads>>
    /\ UNCHANGED threadRest
    /\ UNCHANGED idleVars

\* the search cache after earlier searches, made one after the other, have filled it
WarmCache ==
    AddToCache(AddToCache(AddToCache(<<>>, <<"q", "brave">>, <<UrlA>>, 0),
                          <<"q", "duckduckgo">>, <<UrlA>>, 0),
               <<"q", "google_pse_factcheck">>, <<UrlA>>, 0)

SpecThreadsInit ==
    /\ IdleInit
    /\ pse_creds = FALSE
    /\ search_cache \in {<<>>, WarmCache}
    /\ url_cache = <<>>
    /\ now = 0
    /\ search_count = 0
    /\ last = NoOp
    /\ threads = [t \in ThreadIds |-> IdleThread]

SpecThreadsNext ==
    \/ \E t \in ThreadIds : ThreadEnter(t)
    \/ \E t \in ThreadIds : ThreadLookup(t)
    \/ \E t \in ThreadIds : ThreadStamp(t)
    \/ \E t \in ThreadIds : ThreadRead(t)
    \/ \E t \in ThreadIds : ThreadInvoke(t)
    \/ \E t \in ThreadIds : ThreadSize(t)
    \/ \E t \in ThreadIds : ThreadPick(t)
    \/ \E t \in ThreadIds : ThreadPop(t)
    \/ \E t \in ThreadIds : ThreadStore(t)
    \/ ThreadTick

SpecThreads == SpecThreadsInit /\ [][SpecThreadsNext]_vars

(***************************************************************************)
(* SpecCounter: the two concurrent searches of CONTRA's deep rebuttal.     *)
(* Thread 1 runs self.search(query, 'fact_check_first', max_searches) and   *)
(* thread 2 self.search('debunk ...', 'web_deep_dive', max_searches) on the *)
(* same agent, so they share self.search_count; the guard, the read and the *)
(* write of search_count += 1 and each search_web call are separate steps.  *)
(***************************************************************************)
Strategy(t) == IF t = 1 THEN "fact_check_first" ELSE "web_deep_dive"

CounterQuery(t) == IF t = 1 THEN "contradiction" ELSE "debunk"

\* a thread entering BaseAgent.search; passed counts the searches the guard let through
Entering == [at |-> "guard", tmp |-> 0, passed |-> 0, results |-> <<>>]

counterRest == <<url_cache, now, last, pse_creds>>

\* if max_searches > 0 and self.search_count >= max_searches: return []
CounterGuard(t) ==
    /\ threads[t].at = "guard"
    /\ threads' = [threads EXCEPT ![t].at =
                      IF max_searches > 0 /\ search_count >= max_searches
                      THEN "returned" ELSE "load"]
    /\ UNCHANGED <<search_cache, search_count>>
    /\ UNCHANGED counterRest
    /\ UNCHANGED idleVars

\* self.search_count += 1: the read
CounterRead(t) ==
    /\ threads[t].at \in {"load", "load2"}
    /\ threads' = [threads EXCEPT ![t] =
                      [@ EXCEPT !.tmp = search_count,
                                !.at = IF threads[t].at = "load" THEN "store" ELSE "store2"]]
    /\ UNCHANGED <<search_cache, search_count>>
    /\ UNCHANGED counterRest
    /\ UNCHANGED idleVars

\* self.search_count += 1: the write; the search goes on to its strategy
CounterWrite(t) ==
    /\ threads[t].at \in {"store", "store2"}
    /\ search_count' = threads[t].tmp + 1
    /\ threads' = [threads EXCEPT ![t] =
                      IF threads[t].at = "store"
                      THEN [@ EXCEPT !.at = "tier1", !.passed = 1]
                      ELSE [@ EXCEPT !.at = "tier2"]]
    /\ UNCHANGED search_cache
    /\ UNCHANGED counterRest
    /\ UNCHANGED idleVars

\* the first search_web call of the strategy: google_pse_factcheck for
\* fact_check_first when the credentials are set (brave otherwise), brave for
\* web_deep_dive
CounterTier1(t) ==
    /\ threads[t].at = "tier1"
    /\ \E out \in SmallOutcomes :
       \E r \in {search_web(search_cache, CounterQuery(t),
                            IF t = 1 /\ pse_creds THEN "google_pse_factcheck" ELSE "brave",
                            out, now)} :
          /\ search_cache' = r.cache
          /\ threads' = [threads EXCEPT ![t] =
                            [@ EXCEPT !.results = r.results,
                                      !.at = IF t = 1
                                             THEN (IF pse_creds /\ r.results = <<>>
                                                   THEN "tier2" ELSE "returned")
                                             ELSE "guard2"]]
    /\ UNCHANGED search_count
    /\ UNCHANGED counterRest
    /\ UNCHANGED idleVars

\* web_deep_dive: if max_searches <= 0 or self.search_count < max_searches
CounterGuard2(t) ==
    /\ threads[t].at = "guard2"
    /\ threads' = [threads EXCEPT ![t].at =
                      IF max_searches <= 0 \/ search_count < max_searches
                      THEN "load2" ELSE "returned"]
    /\ UNCHANGED <<search_cache, search_count>>
    /\ UNCHANGED counterRest
    /\ UNCHANGED idleVars

\* the second search_web call: brave for fact_check_first, duckduckgo (whose
\* results extend the first list in place) for web_deep_dive
CounterTier2(t) ==
    /\ threads[t].at = "tier2"
    /\ \E out \in SmallOutcomes :
       \E r \in {search_web(search_cache, CounterQuery(t),
                            IF t = 1 THEN "brave" ELSE "duckduckgo", out, now)} :
          /\ search_cache' = IF t = 1 THEN r.cache
                             ELSE ExtendInPlace(r.cache, <<CounterQuery(t), "brave">>,
                                                threads[t].results \o r.results)
          /\ threads' = [threads EXCEPT ![t] =
                            [@ EXCEPT !.at = "returned",
                                      !.results = IF t = 1 THEN r.results
                                                  ELSE threads[t].results \o r.results]]
    /\ UNCHANGED search_count
    /\ UNCHANGED counterRest
    /\ UNCHANGED idleVars

\* a new ContraAgent (search_count = 0) at executor.submit of its two searches
SpecCounterInit ==
    /\ pc = "idle"
    /\ claim = [raw_input |-> "raw", core_claim |-> "core"]
    /\ messages = <<>>
    /\ round_count = 0
    /\ max_iterations = 3
    /\ max_searches \in -1..MaxSearches
    /\ verdict = NoVerdict
    /\ research_depth = 2
    /\ issued = [r \in {"PRO", "CONTRA"} |-> 0]
    /\ llm_succeeded = FALSE
    /\ tool_invoked = FALSE
    /\ pse_creds \in BOOLEAN
    /\ search_cache = <<>>
    /\ url_cache = <<>>
    /\ now = 0
    /\ search_count = 0
    /\ last = NoOp
    /\ threads = [t \in ThreadIds |-> Entering]

SpecCounterNext ==
    \/ \E t \in ThreadIds : CounterGuard(t)
    \/ \E t \in ThreadIds : CounterRead(t)
    \/ \E t \in ThreadIds : CounterWrite(t)
    \/ \E t \in ThreadIds : CounterTier1(t)
    \/ \E t \in ThreadIds : CounterGuard2(t)
    \/ \E t \in ThreadIds : CounterTier2(t)

SpecCounter == SpecCounterInit /\ [][SpecCounterNext]_vars

(***************************************************************************)
(* Properties of a session (Spec)                                          *)
(***************************************************************************)
Max(a, b) == IF a >= b THEN a ELSE b

Ended == pc = "END"

\* every generative call answered and every search found sources
FailureFree ==
    /\ Ended
    /\ ~verdict.fallback
    /\ \A i \in 1..Len(messages) : messages[i].content = Generated
    /\ \A i \in 2..Len(messages) : messages[i].sources # <<>>

\* C1 (as amended): a session that reaches its end with max_iterations = N has
\* a transcript of exactly 2 * max(N, 2) messages: PRO's opening statement without
\* sources, CONTRA's first reply, then max(N, 2) - 1 pairs of a PRO message
\* followed by a CONTRA message (N = 3 gives 2 pairs, 6 messages).
C1_TranscriptLength ==
    Ended =>
        /\ Len(messages) = 2 * Max(max_iterations, 2)
        /\ messages[1].agent = "PRO" /\ messages[1].round = 0 /\ messages[1].sources = <<>>
        /\ \A i \in 2..Len(messages) :
              messages[i].agent = (IF i % 2 = 0 THEN "CONTRA" ELSE "PRO")

C1_Witness == FailureFree /\ max_iterations = 3 /\ Len(messages) = 6

\* C1 (as stated): a failure-free session with max_iterations = N ends with
\* exactly 2N + 2 messages in the transcript.
C1_Original == FailureFree => Len(messages) = 2 * max_iterations + 2

\* C2: when the session ends, after judge, round_count equals max_iterations.
C2_RoundCountAtEnd == Ended => round_count = max_iterations

\* C3: a session that passed entry validation runs on to judge and ends with a
\* verdict whatever the generative calls and the search tools do: no node raises.
C3_NoNodeRaises == pc # "raised"

\* every record the search tools returned carries a valid URL
WellFormedTools ==
    \A i \in 1..Len(search_cache) :
        \A u \in Range(search_cache[i].stored) : ValidUrl(u)

\* C4: if every generative call fails, and the tools return well-formed records
\* or nothing, the session still terminates: no node raises, every message of
\* the transcript has confidence 0 and the verdict is NON_VERIFICABILE with
\* confidence 0.
C4_AllCallsFail ==
    (~llm_succeeded /\ WellFormedTools) =>
        /\ pc # "raised"
        /\ \A i \in 1..Len(messages) : messages[i].confidence = 0
        /\ Ended => (verdict.verdict = "NON_VERIFICABILE" /\ verdict.confidence_score = 0)

\* C5: with max_searches = k >= 1, the searches a role issues over the whole
\* session never exceed k.
C5_SearchBudget ==
    max_searches >= 1 =>
        \A r \in {"PRO", "CONTRA"} : issued[r] <= max_searches

\* C6: with max_searches = 0 no search tool is ever invoked and every message has
\* empty sources; with max_iterations = 1 the session ends with exactly 4
\* messages and a verdict.
C6_ZeroSearches ==
    max_searches = 0 =>
        /\ ~tool_invoked
        /\ \A i \in 1..Len(messages) : messages[i].sources = <<>>
        /\ (Ended /\ max_iterations = 1) =>
              (Len(messages) = 4 /\ verdict.verdict # Null)

\* C9: every message appended to the transcript, by PRO or by CONTRA, has
\* pairwise distinct source URLs.
C9_DistinctSources == \A i \in 1..Len(messages) : Distinct(messages[i].sources)

\* the normalised URLs some message of the transcript cites
CitedUrls ==
    {u \in {HttpUrl(UrlA), HttpUrl(UrlB)} :
        \E i \in 1..Len(messages) : \E j \in 1..Len(messages[i].sources) :
            messages[i].sources[j] = u}

\* C13: the verdict's metadata holds locally computed values on the success path
\* and on the fallback path alike: rounds_completed is the final round_count and
\* total_sources_checked the number of distinct source URLs of the whole
\* transcript, whatever metadata the generative call returned; the fallback
\* verdict has empty consensus, disputed and source lists.
C13_VerdictMetadata ==
    Ended =>
        /\ verdict.rounds_completed = round_count
        /\ verdict.total_sources_checked = Cardinality(CitedUrls)
        /\ verdict.fallback =>
              /\ verdict.consensus_facts = <<>>
              /\ verdict.disputed_points = <<>>
              /\ verdict.sources_used = <<>>

\* a verdict of the generative call, which came with metadata of its own, over a
\* transcript citing two distinct URLs, one of them more than once
C13_Witness ==
    /\ Ended
    /\ verdict.verdict = "VERO"
    /\ verdict.total_sources_checked = 2
    /\ \E i, k \in 1..Len(messages) : i # k /\ messages[i].sources # <<>>
                                      /\ messages[i].sources = messages[k].sources

\* C15: the transcript is append-only: every step of a session leaves the
\* previous message list as a prefix of the new one, so no appended message is
\* removed, reordered or altered; extract, adaptive_depth and judge append none.
C15_AppendOnly ==
    [][/\ Len(messages') >= Len(messages)
       /\ \A i \in 1..Len(messages) : messages'[i] = messages[i]
       /\ pc \in {"extract", "adaptive_depth", "judge"} => messages' = messages]_vars

\* an ended session of three rounds: messages were appended on top of earlier ones
C15_Witness == Ended /\ Len(messages) = 6 /\ messages[1] # messages[3]

\* C17: round_count never decreases during a session started at 0; it is
\* written only by pro_opening, which sets it to 1, and by pro_turn, which adds 1
\* once in a PRO turn; extract, contra_research, adaptive_depth, contra_turn and
\* judge leave it unchanged.
C17_RoundCount ==
    [][/\ round_count' >= round_count
       /\ pc = "pro_opening" => round_count' = 1
       /\ (pc = "pro_node" /\ pc' # "raised") => round_count' = round_count + 1
       /\ pc \in {"extract", "contra_research", "adaptive_depth", "contra_node", "judge"}
             => round_count' = round_count]_vars

\* a session that ended after the opening and two PRO turns
C17_Witness == Ended /\ round_count = 3 /\ max_iterations = 3

\* C20: pro_opening issues no search: it invokes no tool and leaves both caches
\* and every search counter unchanged; it appends exactly one PRO message of
\* kind argument with an empty source list, and sets round_count to 1 and the
\* depth to shallow.
C20_ProOpeningFrame ==
    [][pc = "pro_opening" =>
          /\ search_cache' = search_cache /\ url_cache' = url_cache
          /\ search_count' = search_count /\ issued' = issued
          /\ tool_invoked' = tool_invoked
          /\ Len(messages') = Len(messages) + 1
          /\ \A i \in 1..Len(messages) : messages'[i] = messages[i]
          /\ messages'[Len(messages')].agent = "PRO"
          /\ messages'[Len(messages')].message_type = "argument"
          /\ messages'[Len(messages')].sources = <<>>
          /\ round_count' = 1
          /\ research_depth' = 1 /\ StateDepth' = 1]_vars

\* the state pro_opening leaves
C20_Witness ==
    /\ pc = "contra_research"
    /\ Len(messages) = 1 /\ messages[1].agent = "PRO"
    /\ round_count = 1 /\ issued["PRO"] = 0

\* the transcript alternates PRO, CONTRA, starting with PRO
Alternates(msgs) ==
    \A i \in 1..Len(msgs) : msgs[i].agent = (IF i % 2 = 1 THEN "PRO" ELSE "CONTRA")

\* C16: in every reachable state the transcript strictly alternates PRO, CONTRA
\* starting with PRO; when PRO's and CONTRA's research run concurrently
\* (parallel_research) the two messages are appended as [PRO, CONTRA] whichever
\* worker finished first, and only once both have finished.
C16_Alternation ==
    [][/\ Alternates(messages')
       /\ (pc = "parallel_wait" /\ messages' # messages) =>
             /\ \A a \in Roles : threads[a].at = "done"
             /\ messages' = messages \o <<threads["PRO"].msg, threads["CONTRA"].msg>>
             /\ threads["PRO"].msg.agent = "PRO" /\ threads["CONTRA"].msg.agent = "CONTRA"]_vars

\* parallel_research has returned and CONTRA's worker had finished first
C16_Witness ==
    /\ pc = "joined"
    /\ threads["CONTRA"].order = 1
    /\ Len(messages) = 2

SequenceSuccessors(node) ==
    CASE node = "extract" -> {"pro_opening"}
      [] node = "pro_opening" -> {"contra_research"}
      [] node = "contra_research" -> {"adaptive_depth"}
      [] node = "adaptive_depth" -> {"pro_node"}
      [] node = "pro_node" -> {"contra_node"}
      [] node = "contra_node" -> {"adaptive_depth", "judge"}
      [] node = "judge" -> {"END"}
      [] OTHER -> {}

\* C22: whatever generative or tool failures occur, the nodes of a session run
\* in the sequence extract, pro_opening, contra_research, one or more times
\* (adaptive_depth, pro_turn, contra_turn), judge, end: every step leads to the
\* next node of the sequence, and the verdict is written only by judge, once, as
\* the last state change.
C22_NodeSequence ==
    [][/\ pc' \in SequenceSuccessors(pc)
       /\ verdict' # verdict => (pc = "judge" /\ verdict = NoVerdict /\ pc' = "END")]_vars

\* the nodes in which an agent searches and argues
ResearchTurns == {"contra_research", "pro_node", "contra_node"}

\* C23: every research turn (contra_research, each pro_turn, each contra_turn)
\* is immediately preceded by a recomputation of the research depth from the
\* latest message: no message is appended between the last adaptive_depth step
\* and the turn, so a step that appends a message is never followed directly by
\* a research turn, and the depth last computed is the one the latest message
\* asks for.
C23_DepthRecomputed ==
    [][/\ messages' # messages => pc' \notin ResearchTurns
       /\ pc' \in ResearchTurns => research_depth' = adaptive_research_depth(messages')]_vars

\* C24: the research depth that a pro_turn or contra_turn reads from the session
\* state is the value the most recent adaptive_depth step wrote (deep after a
\* message with confidence < 50): the state carries it to the agents, they do
\* not fall back on their default.
C24_DepthCarried ==
    pc \in {"pro_node", "contra_node"} => StateDepth = research_depth

\* C34: every message PRO's or CONTRA's think produces carries at most 2 sources
\* when the depth it read was shallow (1) and at most 5 when it was deep (2),
\* however many results the tools returned.
C34_SourceCaps ==
    (last.op \in {"pro_think", "contra_think"}) =>
        /\ research_depth = 1 => Len(last.msg.sources) <= 2
        /\ research_depth = 2 => Len(last.msg.sources) <= 5

\* a deep CONTRA turn whose searches returned more than 5 distinct pages
C34_Witness ==
    /\ last.op = "contra_think"
    /\ research_depth = 2
    /\ Cardinality(Range(last.results)) > 5
    /\ Len(last.msg.sources) = 5

\* C35: in a session the first message of each agent (PRO's opening, CONTRA's
\* reply from contra_research) has kind argument, every later message of PRO has
\* kind defense and every later message of CONTRA has kind rebuttal.
C35_MessageKinds ==
    \A i \in 1..Len(messages) :
        LET m == messages[i]
            first == \A j \in 1..(i - 1) : messages[j].agent # m.agent
        IN  m.message_type = IF first THEN "argument"
                             ELSE IF m.agent = "PRO" THEN "defense" ELSE "rebuttal"

\* C36: whenever adaptive_depth runs in a session the transcript is not empty and
\* its last message is CONTRA's, so the depth handed to the next round follows
\* from CONTRA's confidence alone: deep when it is below 50, shallow otherwise.
C36_DepthFromContra ==
    pc \in {"adaptive_depth", "pro_node"} =>
        /\ messages # <<>>
        /\ messages[Len(messages)].agent = "CONTRA"
        /\ pc = "pro_node" =>
               research_depth = IF messages[Len(messages)].confidence < 50 THEN 2 ELSE 1

\* adaptive_depth has answered deep after a confident PRO and an unsure CONTRA
C36_Witness ==
    /\ pc = "pro_node"
    /\ research_depth = 2
    /\ Len(messages) >= 4
    /\ messages[Len(messages) - 1].agent = "PRO"
    /\ messages[Len(messages) - 1].confidence >= 50
    /\ messages[Len(messages)].confidence < 50

\* C37: extract calls the extraction exactly when the claim's core_claim is empty
\* or equal to its raw input, and otherwise leaves the whole state as it was;
\* run again on the state an extract returned, it changes nothing and calls the
\* extraction no more.
C37_ExtractIdempotent ==
    [][last'.op \in {"extract", "extract raised"} =>
          /\ last'.invoked =
                 IF claim.core_claim = "" \/ claim.core_claim = claim.raw_input
                 THEN 1 ELSE 0
          /\ last'.invoked = 0 => UNCHANGED <<claim, messages, round_count,
                                              research_depth, verdict>>
          /\ last.op = "extract" => (claim' = claim /\ last'.invoked = 0)]_vars

\* C38: debate_round performs exactly one round: round_count grows by exactly 1
\* and exactly two messages are appended, in the order in which they were
\* spoken: CONTRA's rebuttal first, then the defense PRO built with that
\* rebuttal in its context.
C38_DebateRound ==
    [][last'.op = "debate_round" =>
          /\ round_count' = round_count + 1
          /\ Len(messages') = Len(messages) + 2
          /\ SubSeq(messages', 1, Len(messages)) = messages
          /\ messages'[Len(messages) + 1].agent = "CONTRA"
          /\ messages'[Len(messages) + 2].agent = "PRO"
          /\ messages'[Len(messages) + 2].message_type = "defense"]_vars

(***************************************************************************)
(* Properties of the entry points (SpecEntry)                              *)
(***************************************************************************)
ValidConfiguration ==
    /\ max_iterations \in 1..ApiMaxIterations
    /\ max_searches \in -1..ApiMaxSearches
    /\ last.key[1] \in Languages
    /\ last.key[2] \in Personalities
    /\ last.key[3] \in Personalities

\* C12: a session whose configuration is invalid (max_iterations outside 1..10,
\* max_searches outside -1..100, unknown language or personality) is rejected at
\* either entry point before the graph runs any node: a session that was
\* started has a valid configuration.
C12_InvalidRejected == pc \notin {"idle", "rejected"} => ValidConfiguration

\* C28: for every integer max_iterations, 0 and negative values included, the
\* debate loop terminates: every pass through (adaptive_depth, pro_turn,
\* contra_turn) adds to round_count, the loop is taken again only while
\* round_count is below max_iterations, judge is entered only after a pass, and
\* every node of a session hands over to the next, so that judge is reached.
C28_LoopTerminates ==
    [][pc # "idle" =>
          /\ pc' # "raised"
          /\ pc = "pro_node" => round_count' > round_count
          /\ (pc = "contra_node" /\ pc' = "adaptive_depth") => round_count < max_iterations
          /\ pc' = "judge" => pc = "contra_node"]_vars

(***************************************************************************)
(* Properties of the tool-access layer (SpecCache, SpecTools)              *)
(***************************************************************************)
\* C7: a search_web(q, t) call that finds the entry of an earlier call, less than
\* TTL old, returns the list that earlier call got from the tool, and invokes no
\* tool.
C7_CacheHit ==
    (last.op = "search_web" /\ last.present /\ last.age < TTL) =>
        (last.results = last.stored /\ last.invoked = 0)

\* C8: under any sequence of searches, page fetches and cache clears by a single
\* thread neither cache ever holds more than MAX_CACHE_SIZE entries, also after
\* a present but expired key is inserted again.
C8_CacheBounded ==
    /\ Len(search_cache) <= MAX_CACHE_SIZE
    /\ Len(url_cache) <= MAX_CACHE_SIZE

\* an expired key was just inserted again and the search cache is full
C8_Witness ==
    /\ last.op = "search_web"
    /\ last.present /\ last.age >= TTL
    /\ Len(search_cache) = MAX_CACHE_SIZE

\* C11: search_web never raises to its caller: whatever the underlying tool does
\* (a failure, an unknown tool name, a NotImplementedError answered by a brave
\* call that fails in turn), the caller gets a list.
C11_SearchNeverRaises == last.op = "search_web" => ~last.raised

\* C18: whatever the interleaving of two threads calling search_web on the
\* shared instance, the search cache holds at most MAX_CACHE_SIZE entries and no
\* error leaves the cache bookkeeping (as when both threads pick the same oldest
\* entry to evict).
C18_ConcurrentCacheSafe ==
    /\ Len(search_cache) <= MAX_CACHE_SIZE
    /\ \A t \in ThreadIds : threads[t].at # "raised"

\* C19: two identical requests in flight at the same time with no valid cache
\* entry invoke the underlying tool at most once, and both callers receive the
\* same result.
C19_InFlightDedup ==
    (/\ \A t \in ThreadIds : threads[t].at = "returned" /\ threads[t].overlapped
     /\ threads[1].key = threads[2].key)
        => /\ threads[1].invoked + threads[2].invoked <= 1
           /\ threads[1].results = threads[2].results

\* C25: during CONTRA's deep rebuttal, where two searches run concurrently on
\* the same agent and share its search counter, every interleaving leaves the
\* counter at most max_searches = k >= 1 and lets at most k searches through the
\* guard to the strategies.
C25_SharedCounter ==
    max_searches >= 1 =>
        /\ search_count <= max_searches
        /\ threads[1].passed + threads[2].passed <= max_searches

\* C26: a result list stored in the search cache is never changed afterwards:
\* after any sequence of agent searches the value cached for (q, t) is still
\* what the tool returned on the miss that stored it, also after web_deep_dive
\* has joined the second tool's results to the first tier's.
C26_CachedListUnchanged ==
    \A i \in 1..Len(search_cache) : search_cache[i].value = search_cache[i].stored

\* C27: for max_searches = k >= 1 one agent instance passes at most k calls
\* down to search_web, under every strategy, also when the first tier of
\* fact_check_first returns nothing and the general tool is tried as well.
C27_CallsWithinBudget ==
    (last.op \in {rs[2] : rs \in AgentSearches} /\ last.limit >= 1) =>
        last.passed <= last.limit

\* the keys a cache holds
CacheKeys(cache) == {cache[i].key : i \in 1..Len(cache)}

\* C29: an insert that finds the cache at capacity evicts exactly one entry, the
\* one whose stored timestamp is the oldest, also after an expired entry has been
\* refreshed by a later miss; an insert into a cache below capacity evicts nothing.
\* (An insert is a get_url call that misses; when the key refreshed is itself the
\* entry dropped, no key leaves the cache.)
C29_EvictsOldest ==
    [][(last'.op = "get_url" /\ ~CacheFresh(url_cache, last'.key, now)) =>
          LET gone == CacheKeys(url_cache) \ CacheKeys(url_cache')
          IN  /\ Len(url_cache) < MAX_CACHE_SIZE => gone = {}
              /\ (Len(url_cache) >= MAX_CACHE_SIZE /\ ~CacheHas(url_cache, last'.key))
                     => Cardinality(gone) = 1
              /\ Cardinality(gone) <= 1
              /\ \A k \in gone : \A i \in 1..Len(url_cache) :
                     url_cache[CacheIndex(url_cache, k)].timestamp
                         <= url_cache[i].timestamp]_vars

\* C30: an entry is served only while its age is strictly less than the TTL: a
\* search_web or get_url call for a key whose entry is TTL or more old is a miss,
\* which calls the tool again and leaves the key cached with the timestamp of
\* this call, in the search cache and in the URL cache alike.
C30_ExpiredIsMiss ==
    (last.op \in {"search_web", "get_url"} /\ last.present /\ last.age >= TTL) =>
        LET cache == IF last.op = "search_web" THEN search_cache ELSE url_cache
        IN  /\ last.op = "search_web" => last.invoked >= 1
            /\ CacheHas(cache, last.key)
            /\ cache[CacheIndex(cache, last.key)].timestamp = now

\* C31: a search_web call that misses leaves its key cached with the list the
\* call produced, the empty list of a failed tool call included, so that a repeat
\* within the TTL is served from the cache; a search leaves the URL cache as it
\* was, a page fetch leaves the search cache as it was, and clear_cache empties
\* both.
C31_MissStored ==
    [][/\ last'.op = "search_web" =>
              /\ url_cache' = url_cache
              /\ ~CacheFresh(search_cache, last'.key, now) =>
                     /\ CacheFresh(search_cache', last'.key, now')
                     /\ search_cache'[CacheIndex(search_cache', last'.key)].value
                            = last'.results
       /\ last'.op = "get_url" => search_cache' = search_cache
       /\ last'.op = "clear_cache" => (search_cache' = <<>> /\ url_cache' = <<>>)]_vars

\* the list of the first search_web call that returned results, [] if none did
FirstProducing(tiers) ==
    IF \E i \in 1..Len(tiers) : tiers[i] # <<>>
    THEN tiers[CHOOSE i \in 1..Len(tiers) :
                   tiers[i] # <<>> /\ \A j \in 1..(i - 1) : tiers[j] = <<>>]
    ELSE <<>>

\* C32: a fact_check_first search let through by the budget queries the
\* fact-check tool first when, and only when, its credentials are configured;
\* brave is queried exactly when the credentials are absent or the fact-check
\* tier returned nothing; the list returned is that of the first tier that
\* produced results.
C32_FactCheckFirst ==
    (last.op = "fact_check_first" /\ last.issued >= 1) =>
        /\ pse_creds => /\ last.tools # <<>>
                        /\ Dispatch(last.tools[1]) = "google_pse_factcheck"
        /\ ~pse_creds => \A i \in 1..Len(last.tools) : last.tools[i] = "brave"
        /\ (\E i \in 1..Len(last.tools) : last.tools[i] = "brave")
               <=> (~pse_creds \/ last.tiers[1] = <<>>)
        /\ last.results = FirstProducing(last.tiers)

\* C33: a web_deep_dive search let through by the budget queries brave first and
\* then, exactly when the budget permits one more search, duckduckgo; it returns
\* the first list followed by the second, each query counts as one issued
\* search, and with an unlimited budget both tools are queried, in that order.
C33_WebDeepDive ==
    (last.op = "web_deep_dive" /\ last.issued >= 1) =>
        LET before == search_count - last.issued
            permits == last.limit <= 0 \/ before + 1 < last.limit
        IN  /\ last.tools = IF permits THEN <<"brave", "duckduckgo">> ELSE <<"brave">>
            /\ last.results = IF permits THEN last.tiers[1] \o last.tiers[2]
                              ELSE last.tiers[1]
            /\ last.issued = Len(last.tools)
            /\ last.limit = -1 => last.tools = <<"brave", "duckduckgo">>

\* an unlimited deep dive in which both tools returned a result
C33_Witness ==
    /\ last.op = "web_deep_dive"
    /\ last.limit = -1
    /\ last.tools = <<"brave", "duckduckgo">>
    /\ last.tiers[1] # <<>> /\ last.tiers[2] # <<>>
    /\ last.results = last.tiers[1] \o last.tiers[2]

C10_AdaptiveDepth ==
    [][last'.op = "adaptive_depth" =>
         /\ research_depth' \in {1, 2}
         /\ research_depth' = 2 <=>
               (messages # <<>> /\ messages[Len(messages)].confidence < 50)
         /\ messages' = messages
         /\ round_count' = round_count]_vars

\* adaptive_depth has answered shallow for a last message of confidence exactly 50
C10_Witness ==
    /\ last.op = "adaptive_depth"
    /\ messages # <<>>
    /\ messages[Len(messages)].confidence = 50
    /\ research_depth = 1

====
